---- MODULE Spec2Model ----
(***************************************************************************)
(* Model of pip_accel.caches.s3.S3CacheBackend: one backend instance, the  *)
(* remote bucket it talks to through boto, and the local binary cache.     *)
(* Strings are sequences of one-character strings.  Each get/put is one    *)
(* action; the outcome of every client-library call is chosen by the       *)
(* environment.  Spec runs operations directly on the backend, SpecManager *)
(* runs them under the cache manager, and SpecWorkers interleaves the      *)
(* first operations of several workers sharing the instance.               *)
(***************************************************************************)
EXTENDS Integers, Sequences, FiniteSets, TLC

VARIABLES
    config,             \* self.config: the options this backend reads
    boto_installed,     \* whether __import__('boto') succeeds
    cached_connection,  \* self.cached_connection (NoHandle: attribute absent)
    cached_bucket,      \* self.cached_bucket     (NoHandle: attribute absent)
    bucket_exists,      \* remote: the configured bucket exists
    store,              \* remote: objects of the bucket, key -> content
    files,              \* local file system: path -> content
    dirs,               \* local file system: directories that exist
    call,               \* the operation run last: name, filename, content
    raw_key,            \* the cache key that operation derived
    calls,              \* the steps that operation took, in order
    raised,             \* the exception that left it (NoExc: none)
    retval,             \* what it returned
    opened,             \* number of connection handles created so far
    resolved,           \* number of bucket handles created so far
    nops,               \* number of operations run so far
    uploads,            \* number of uploads that succeeded so far
    last_put,           \* filename -> content of its last successful put
    enabled,            \* cache manager: this backend is still in use
    requests,           \* cache manager: number of requests it has served
    pc,                 \* concurrent workers: where each is in its operation
    conn_args           \* the arguments of the last S3Connection(...) call

vars == <<config, boto_installed, cached_connection, cached_bucket,
          bucket_exists, store, files, dirs, call, raw_key, calls, raised,
          retval, opened, resolved, nops, uploads, last_put, enabled,
          requests, pc, conn_args>>

manager_vars == <<enabled, requests>>
worker_vars == <<pc>>

----------------------------------------------------------------------------
(* Bounds and input sets *)

MaxOps == 3
NumWorkers == 2
MaxNameLen == 2
Workers == 1..NumWorkers

Prefixes == {<<>>, <<"v">>}
Filenames == {<<"a">>, <<"v", "/", "a">>}
Contents == {<<>>, <<1, 2>>}
BucketNames == {<<>>, <<"b">>}
CacheDir == <<"c">>

\* endpoint URLs, with the parts they are written from
Canonical == <<"s", "3", ".", "a", "m", "a", "z", "o", "n", "a", "w", "s", ".", "c", "o", "m">>
Endpoints ==
    {[url |-> <<"h", "t", "t", "p", "s", ":", "/", "/", "s", "3", ".", "a", "m", "a", "z", "o", "n", "a", "w", "s", ".", "c", "o", "m">>,
      scheme |-> "https", host |-> Canonical, port |-> 0],
     [url |-> <<"h", "t", "t", "p", ":", "/", "/", "h">>,
      scheme |-> "http", host |-> <<"h">>, port |-> 0],
     [url |-> <<"h", "t", "t", "p", "s", ":", "/", "/", "h", ":", "8", "1">>,
      scheme |-> "https", host |-> <<"h">>, port |-> 81],
     [url |-> <<"h", "t", "t", "p", ":", "/", "/", "s", "3", ".", "a", "m", "a", "z", "o", "n", "a", "w", "s", ".", "c", "o", "m", ":", "8", "1">>,
      scheme |-> "http", host |-> Canonical, port |-> 81]}

NoHandle == 0
NoArgs == [host |-> <<>>, port |-> 0, is_secure |-> FALSE, calling_format |-> "-"]

----------------------------------------------------------------------------
(* Finite maps, kept as sets of <<key, value>> pairs *)

Has(m, k) == \E e \in m : e[1] = k
Lookup(m, k) == (CHOOSE e \in m : e[1] = k)[2]
Write(m, k, v) == {e \in m : e[1] # k} \cup {<<k, v>>}
Remove(m, k) == {e \in m : e[1] # k}

----------------------------------------------------------------------------
(* String helpers *)

NonEmpty(s) == s # <<>>

RECURSIVE Join(_, _)
Join(sep, parts) ==
    IF parts = <<>> THEN <<>>
    ELSE IF Len(parts) = 1 THEN parts[1]
    ELSE parts[1] \o sep \o Join(sep, Tail(parts))

\* os.path.join(a, b) on POSIX
path_join(a, b) ==
    IF b # <<>> /\ b[1] = "/" THEN b
    ELSE IF a = <<>> \/ a[Len(a)] = "/" THEN a \o b
    ELSE a \o <<"/">> \o b

RECURSIVE rstrip_slash(_)
rstrip_slash(s) ==
    IF s # <<>> /\ s[Len(s)] = "/" THEN rstrip_slash(SubSeq(s, 1, Len(s) - 1))
    ELSE s

\* os.path.dirname(p) on POSIX
path_dirname(p) ==
    LET slashes == {i \in 1..Len(p) : p[i] = "/"}
        i == IF slashes = {} THEN 0
             ELSE CHOOSE j \in slashes : \A k \in slashes : k <= j
        head == SubSeq(p, 1, i)
    IN  IF rstrip_slash(head) = <<>> THEN head ELSE rstrip_slash(head)

\* pip_accel.utils.makedirs: the directory and every missing ancestor
RECURSIVE makedirs(_, _)
makedirs(ds, d) ==
    IF d = <<>> \/ d \in ds \/ path_dirname(d) = d THEN ds \cup ({d} \ {<<>>})
    ELSE makedirs(ds, path_dirname(d)) \cup {d}

\* the index of the first occurrence of sub in s at or after from, 0 if none
Find(s, sub, from) ==
    LET hits == {i \in from..(Len(s) - Len(sub) + 1) :
                    SubSeq(s, i, i + Len(sub) - 1) = sub}
    IN  IF hits = {} THEN 0 ELSE CHOOSE i \in hits : \A j \in hits : i <= j

\* str.partition(sep): the parts before and after the first sep
partition(s, sep) ==
    LET i == Find(s, sep, 1)
    IN  IF i = 0 THEN [head |-> s, tail |-> <<>>]
        ELSE [head |-> SubSeq(s, 1, i - 1), tail |-> SubSeq(s, i + Len(sep), Len(s))]

\* urlparse(url): scheme and netloc
urlparse(url) ==
    LET colon == Find(url, <<":">>, 1)
        scheme == IF colon = 0 THEN <<>> ELSE SubSeq(url, 1, colon - 1)
        rest == SubSeq(url, colon + 1, Len(url))
        slash == Find(rest, <<"/">>, 3)
        netloc == IF SubSeq(rest, 1, 2) # <<"/", "/">> THEN <<>>
                  ELSE IF slash = 0 THEN SubSeq(rest, 3, Len(rest))
                  ELSE SubSeq(rest, 3, slash - 1)
    IN  [scheme |-> scheme, netloc |-> netloc]

Digits == <<"0", "1", "2", "3", "4", "5", "6", "7", "8", "9">>

\* int(s) for a string of decimal digits
RECURSIVE int(_)
int(s) ==
    IF s = <<>> THEN 0
    ELSE 10 * int(SubSeq(s, 1, Len(s) - 1))
         + (CHOOSE d \in 0..9 : Digits[d + 1] = s[Len(s)])

----------------------------------------------------------------------------
(* Exceptions *)

NoExc == [type |-> "none", status |-> 0]
BotoClientError == [type |-> "BotoClientError", status |-> 0]
BotoServerError == [type |-> "BotoServerError", status |-> 503]
S3ResponseError(s) == [type |-> "S3ResponseError", status |-> s]
SocketError == [type |-> "socket.error", status |-> 0]
IOError == [type |-> "IOError", status |-> 0]
CacheBackendError == [type |-> "CacheBackendError", status |-> 0]
CacheBackendDisabledError == [type |-> "CacheBackendDisabledError", status |-> 0]

\* what a request to the service can raise, whatever the remote state is
TransportErrors == {BotoClientError, BotoServerError, S3ResponseError(403), SocketError}

\* except (BotoClientError, BotoServerError): S3ResponseError derives from
\* BotoServerError
IsBotoError_client_only(e) == e.type = "BotoClientError"

IsBotoError(e) == e.type \in {"BotoClientError", "BotoServerError", "S3ResponseError"}

NetworkCalls == {"S3Connection", "get_bucket", "create_bucket", "get_key",
                 "get_contents_to_filename", "set_contents_from_file"}

----------------------------------------------------------------------------
(* The backend *)

\* the last component of a path
path_basename(p) ==
    LET slashes == {i \in 1..Len(p) : p[i] = "/"}
        i == IF slashes = {} THEN 0
             ELSE CHOOSE j \in slashes : \A k \in slashes : k <= j
    IN  SubSeq(p, i + 1, Len(p))

get_cache_key_basename(cfg, filename) ==
    Join(<<"/">>, SelectSeq(<<cfg.s3_cache_prefix, path_basename(filename)>>, NonEmpty))

get_cache_key_unfiltered(cfg, filename) ==
    Join(<<"/">>, <<cfg.s3_cache_prefix, filename>>)

get_cache_key_prefix_only(cfg, filename) ==
    Join(<<"/">>, SelectSeq(<<cfg.s3_cache_prefix>>, NonEmpty))

get_cache_key(cfg, filename) ==
    Join(<<"/">>, SelectSeq(<<cfg.s3_cache_prefix, filename>>, NonEmpty))

local_file_concat(cfg, filename) == cfg.binary_cache \o filename

local_file(cfg, filename) == path_join(cfg.binary_cache, filename)

\* the exception check_prerequisites raises, NoExc when it returns
check_prerequisites_bucket_only(cfg, boto) ==
    IF cfg.s3_cache_bucket = <<>> THEN CacheBackendDisabledError ELSE NoExc

check_prerequisites(cfg, boto) ==
    IF cfg.s3_cache_bucket = <<>> THEN CacheBackendDisabledError
    ELSE IF ~boto THEN CacheBackendDisabledError
    ELSE NoExc

\* A frame is the state an operation works on while it runs.  Every step is
\* recorded in .calls with the exception it raised.
Step(fr, name) == [fr EXCEPT !.calls = Append(@, [name |-> name, exc |-> NoExc])]
Raise_dropping_connection(fr, e) ==
    [fr EXCEPT !.exc = e, !.cached_connection = NoHandle]

Raise(fr, e) == [fr EXCEPT !.exc = e]
Failed(fr) == fr.exc # NoExc

\* the step just recorded raises e
StepRaise(fr, e) == [fr EXCEPT !.exc = e, !.calls[Len(fr.calls)].exc = e]

\* boto.s3.connection.S3Connection(...)
S3Connection(fr, args) ==
    LET c == [Step(fr, "S3Connection") EXCEPT !.conn_args = args]
    IN  {[c EXCEPT !.ret = c.opened + 1, !.opened = @ + 1]}
        \cup {StepRaise(c, e) : e \in TransportErrors}

\* connection.get_bucket(name)
get_bucket(fr) ==
    LET c == Step(fr, "get_bucket")
    IN  (IF c.bucket_exists
         THEN {[c EXCEPT !.ret = c.resolved + 1, !.resolved = @ + 1]}
         ELSE {StepRaise(c, S3ResponseError(404))})
        \cup {StepRaise(c, e) : e \in TransportErrors}

\* connection.create_bucket(name)
create_bucket(fr) ==
    LET c == Step(fr, "create_bucket")
    IN  {[c EXCEPT !.bucket_exists = TRUE]}
        \cup {StepRaise(c, e) : e \in TransportErrors}

connection_port_secure_default(port, is_secure) ==
    IF port # <<>> THEN int(port) ELSE 443

\* int(port) if port else 443 if is_secure else 80
connection_port(port, is_secure) ==
    IF port # <<>> THEN int(port) ELSE IF is_secure THEN 443 ELSE 80

\* the arguments s3_connection computes from the endpoint URL
connection_args(cfg) ==
    LET endpoint == urlparse(cfg.s3_cache_url)
        hp == partition(endpoint.netloc, <<":">>)
        host == hp.head
        port == hp.tail
        is_secure == (endpoint.scheme = <<"h", "t", "t", "p", "s">>)
    IN  [host |-> host,
         port |-> connection_port(port, is_secure),
         is_secure |-> is_secure,
         calling_format |-> IF host = Canonical THEN "SubdomainCallingFormat"
                            ELSE "OrdinaryCallingFormat"]

has_cached_connection_never(fr) == FALSE

has_cached_connection(fr) == fr.cached_connection # NoHandle

has_cached_bucket(fr) == fr.cached_bucket # NoHandle

\* the s3_connection property; .ret is the handle it returns
s3_connection(fr) ==
    IF has_cached_connection(fr) THEN {[fr EXCEPT !.ret = fr.cached_connection]}
    ELSE {IF Failed(c)
          THEN (IF IsBotoError(c.exc) THEN Raise(c, CacheBackendError) ELSE c)
          ELSE [c EXCEPT !.cached_connection = c.ret]
          : c \in S3Connection(fr, connection_args(fr.config))}

\* self.s3_connection.get_bucket(...)
connection_get_bucket(fr) ==
    UNION {IF Failed(c) THEN {c} ELSE get_bucket(c) : c \in s3_connection(fr)}

\* self.s3_connection.create_bucket(...)
connection_create_bucket(fr) ==
    UNION {IF Failed(c) THEN {c} ELSE create_bucket(c) : c \in s3_connection(fr)}

should_create_bucket_any_status(e, cfg) == cfg.s3_cache_create_bucket

should_create_bucket_unconfigured(e, cfg) == e.status = 404

should_create_bucket(e, cfg) == e.status = 404 /\ cfg.s3_cache_create_bucket

Memoize(fr) == IF Failed(fr) THEN fr ELSE [fr EXCEPT !.cached_bucket = fr.ret]

\* except S3ResponseError as e
handle_S3ResponseError(fr) ==
    IF should_create_bucket(fr.exc, fr.config)
    THEN UNION {IF Failed(c) THEN {c}
                ELSE {Memoize(b) : b \in connection_get_bucket(c)}
                : c \in connection_create_bucket(Raise(fr, NoExc))}
    ELSE {fr}

\* the s3_bucket property; .ret is the handle it returns
s3_bucket(fr) ==
    IF has_cached_bucket(fr) THEN {[fr EXCEPT !.ret = fr.cached_bucket]}
    ELSE LET inner == UNION {IF b.exc.type = "S3ResponseError"
                             THEN handle_S3ResponseError(b)
                             ELSE {Memoize(b)}
                             : b \in connection_get_bucket(fr)}
         IN  {IF IsBotoError(b.exc) THEN Raise(b, CacheBackendError) ELSE b
              : b \in inner}

\* bucket.get_key(name): .found tells whether the key exists
get_key(fr, key) ==
    LET c == Step(fr, "get_key")
    IN  {[c EXCEPT !.found = Has(c.store, key)]}
        \cup {StepRaise(c, e) : e \in TransportErrors}

\* the proper prefixes of a payload: what an interrupted transfer has written
Partial(content) == {SubSeq(content, 1, n) : n \in 0..(Len(content) - 1)}

\* key.get_contents_to_filename(path): the library opens the path for
\* writing and streams the object into it.  When the transfer fails the
\* path holds what was written so far, or is removed again by the library;
\* when the path cannot be opened nothing changes.
get_contents_to_filename(fr, key, path) ==
    LET c == Step(fr, "get_contents_to_filename")
        content == Lookup(c.store, key)
    IN  {[c EXCEPT !.files = Write(@, path, content)]}
        \cup {StepRaise(c, IOError)}
        \cup {StepRaise([c EXCEPT !.files = Remove(@, path)], e) : e \in TransportErrors}
        \cup {StepRaise([c EXCEPT !.files = Write(@, path, part)], e)
               : e \in TransportErrors \cup {IOError}, part \in Partial(content) \cup {<<>>}}

\* key.set_contents_from_file(handle): replaces the object as a whole
set_contents_from_file(fr, key, content) ==
    LET c == Step(fr, "set_contents_from_file")
    IN  {[c EXCEPT !.store = Write(@, key, content)]}
        \cup {StepRaise(c, e) : e \in TransportErrors}

Prerequisites_first_use_only(fr) ==
    IF fr.cached_bucket # NoHandle THEN fr
    ELSE StepRaise(Step(fr, "check_prerequisites"),
                   check_prerequisites(fr.config, fr.boto_installed))

Prerequisites(fr) ==
    StepRaise(Step(fr, "check_prerequisites"),
              check_prerequisites(fr.config, fr.boto_installed))

RetNone == [tag |-> "None", path |-> <<>>]
RetPath(p) == [tag |-> "path", path |-> p]
NoReturn == [tag |-> "-", path |-> <<>>]

Return(fr, v) == [fr EXCEPT !.retval = v]

get_miss_after_makedirs(fr, path) ==
    Return([fr EXCEPT !.dirs = makedirs(@, path_dirname(path))], RetNone)

\* if key is None: nothing is done for path and get returns None
get_miss(fr, path) == Return(fr, RetNone)

\* S3CacheBackend.get(filename): the frames it can end in
get(fr, filename) ==
    LET p == Prerequisites(fr)
        k == get_cache_key(fr.config, filename)
        path == local_file(fr.config, filename)
        download(c) ==
            {IF Failed(d) THEN d ELSE Return(d, RetPath(path))
             : d \in get_contents_to_filename(
                        [c EXCEPT !.dirs = makedirs(@, path_dirname(path))], k, path)}
        lookup(b) ==
            UNION {IF Failed(c) THEN {c}
                   ELSE IF ~c.found THEN {get_miss(c, path)}
                   ELSE download(c)
                   : c \in get_key(b, k)}
    IN  IF Failed(p) THEN {p}
        ELSE UNION {IF Failed(b) THEN {b} ELSE lookup(b)
                    : b \in s3_bucket([p EXCEPT !.raw_key = k])}

readonly_ignored(cfg) == FALSE

readonly(cfg) == cfg.s3_cache_readonly

\* S3CacheBackend.put(filename, handle): the frames it can end in; content
\* is what the handle yields
put(fr, filename, content) ==
    IF readonly(fr.config) THEN {Return(fr, RetNone)}
    ELSE LET p == Prerequisites(fr)
             k == get_cache_key(fr.config, filename)
         IN  IF Failed(p) THEN {p}
             ELSE UNION {IF Failed(b) THEN {b}
                         ELSE {IF Failed(u) THEN u ELSE Return(u, RetNone)
                               : u \in set_contents_from_file(b, k, content)}
                         : b \in s3_bucket([p EXCEPT !.raw_key = k])}

----------------------------------------------------------------------------
(* The state machine *)

\* the frame an operation starts from
Self ==
    [config |-> config, boto_installed |-> boto_installed,
     cached_connection |-> cached_connection, cached_bucket |-> cached_bucket,
     bucket_exists |-> bucket_exists, store |-> store, files |-> files,
     dirs |-> dirs, opened |-> opened, resolved |-> resolved,
     calls |-> <<>>, exc |-> NoExc, ret |-> NoHandle, found |-> FALSE,
     raw_key |-> <<>>, retval |-> NoReturn, conn_args |-> conn_args]

\* the state an operation leaves behind
Finish(fr, c) ==
    /\ cached_connection' = fr.cached_connection
    /\ cached_bucket' = fr.cached_bucket
    /\ bucket_exists' = fr.bucket_exists
    /\ store' = fr.store
    /\ files' = fr.files
    /\ dirs' = fr.dirs
    /\ opened' = fr.opened
    /\ resolved' = fr.resolved
    /\ calls' = fr.calls
    /\ raised' = fr.exc
    /\ retval' = fr.retval
    /\ raw_key' = fr.raw_key
    /\ call' = c
    /\ nops' = nops + 1
    /\ conn_args' = fr.conn_args
    /\ UNCHANGED <<config, boto_installed>>

Uploaded(fr) ==
    /\ ~Failed(fr)
    /\ \E i \in 1..Len(fr.calls) : fr.calls[i].name = "set_contents_from_file"

Init ==
    /\ config \in [s3_cache_bucket : BucketNames,
                    s3_cache_prefix : Prefixes,
                    s3_cache_readonly : BOOLEAN,
                    s3_cache_create_bucket : BOOLEAN,
                    s3_cache_url : {e.url : e \in Endpoints},
                    binary_cache : {CacheDir}]
    /\ boto_installed \in BOOLEAN
    /\ cached_connection = NoHandle
    /\ cached_bucket = NoHandle
    /\ bucket_exists \in BOOLEAN
    /\ store \in {{}} \cup {{<<get_cache_key(config, f), c>>}
                             : f \in {g \in Filenames : bucket_exists},
                               c \in {d \in Contents : d # <<>>}}
    /\ files = {}
    /\ dirs = {}
    /\ call = [name |-> "none", filename |-> <<>>, content |-> <<>>]
    /\ raw_key = <<>>
    /\ calls = <<>>
    /\ raised = NoExc
    /\ retval = NoReturn
    /\ opened = 0
    /\ resolved = 0
    /\ nops = 0
    /\ uploads = 0
    /\ last_put = {}
    /\ enabled = TRUE
    /\ requests = 0
    /\ pc = [w \in Workers |-> "start"]
    /\ conn_args = NoArgs

Get ==
    /\ nops < MaxOps
    /\ \E filename \in Filenames :
         \E fr \in get(Self, filename) :
            /\ Finish(fr, [name |-> "get", filename |-> filename, content |-> <<>>])
            /\ UNCHANGED <<uploads, last_put>>
            /\ UNCHANGED <<manager_vars, worker_vars>>

Put ==
    /\ nops < MaxOps
    /\ \E filename \in Filenames, content \in Contents :
         \E fr \in put(Self, filename, content) :
            /\ Finish(fr, [name |-> "put", filename |-> filename, content |-> content])
            /\ uploads' = IF Uploaded(fr) THEN uploads + 1 ELSE uploads
            /\ last_put' = IF Uploaded(fr) THEN Write(last_put, filename, content)
                           ELSE last_put
            /\ UNCHANGED <<manager_vars, worker_vars>>

Next == Get \/ Put

Spec == Init /\ [][Next]_vars

----------------------------------------------------------------------------
(* The backend under the cache manager *)

disables_when_unconfigured(exc) == exc = CacheBackendDisabledError

\* CacheManager: a backend that raises from get or put is disabled
disables(exc) == exc # NoExc

\* CacheManager.get reaches this backend
ManagerGet ==
    /\ enabled
    /\ requests < MaxOps
    /\ \E filename \in Filenames :
         \E fr \in get(Self, filename) :
            /\ Finish(fr, [name |-> "get", filename |-> filename, content |-> <<>>])
            /\ enabled' = ~disables(fr.exc)
            /\ requests' = requests + 1
            /\ UNCHANGED <<uploads, last_put, worker_vars>>

\* CacheManager.put reaches this backend
ManagerPut ==
    /\ enabled
    /\ requests < MaxOps
    /\ \E filename \in Filenames, content \in Contents :
         \E fr \in put(Self, filename, content) :
            /\ Finish(fr, [name |-> "put", filename |-> filename, content |-> content])
            /\ enabled' = ~disables(fr.exc)
            /\ requests' = requests + 1
            /\ uploads' = IF Uploaded(fr) THEN uploads + 1 ELSE uploads
            /\ last_put' = IF Uploaded(fr) THEN Write(last_put, filename, content)
                           ELSE last_put
            /\ UNCHANGED worker_vars

\* a request the other backends serve alone: this backend is disabled, or a
\* backend tried before it had the archive
LocalOnly ==
    /\ requests < MaxOps
    /\ requests' = requests + 1
    /\ UNCHANGED <<config, boto_installed, cached_connection, cached_bucket,
                   bucket_exists, store, files, dirs, call, raw_key, calls,
                   raised, retval, opened, resolved, nops, uploads, last_put,
                   enabled, pc, conn_args>>

ManagerNext == ManagerGet \/ ManagerPut \/ LocalOnly

SpecManager == Init /\ [][ManagerNext]_vars

----------------------------------------------------------------------------
(* Workers sharing the backend: each runs one get or put, interleaved with *)
(* the others between the attribute tests and the client-library calls of  *)
(* s3_bucket and s3_connection.  Here calls is the log of all their calls. *)

SharedSelf == [Self EXCEPT !.calls = calls]

\* worker w moves to loc; the instance and the remote take the frame's state
Shared(w, fr, loc) ==
    /\ pc' = [pc EXCEPT ![w] = loc]
    /\ cached_connection' = fr.cached_connection
    /\ cached_bucket' = fr.cached_bucket
    /\ bucket_exists' = fr.bucket_exists
    /\ opened' = fr.opened
    /\ resolved' = fr.resolved
    /\ calls' = fr.calls
    /\ conn_args' = fr.conn_args
    /\ UNCHANGED <<config, boto_installed, store, files, dirs, call, raw_key,
                   raised, retval, nops, uploads, last_put, manager_vars>>

\* self.check_prerequisites()
W_Prerequisites(w) ==
    /\ pc[w] = "start"
    /\ LET p == Prerequisites(SharedSelf)
       IN  Shared(w, p, IF Failed(p) THEN "done" ELSE "s3_bucket")

\* if not hasattr(self, 'cached_bucket')
W_TestBucket(w) ==
    /\ pc[w] = "s3_bucket"
    /\ Shared(w, SharedSelf,
              IF has_cached_bucket(SharedSelf) THEN "done" ELSE "s3_connection")

\* if not hasattr(self, 'cached_connection')
W_TestConnection(w) ==
    /\ pc[w] = "s3_connection"
    /\ Shared(w, SharedSelf,
              IF has_cached_connection(SharedSelf) THEN "get_bucket" ELSE "S3Connection")

\* self.cached_connection = S3Connection(...)
W_Connect(w) ==
    /\ pc[w] = "S3Connection"
    /\ \E c \in S3Connection(SharedSelf, connection_args(config)) :
          IF Failed(c) THEN Shared(w, c, "done")
          ELSE Shared(w, [c EXCEPT !.cached_connection = c.ret], "get_bucket")

\* self.cached_bucket = <connection>.get_bucket(...), and the test of the
\* except clause when it raises
W_GetBucket(w) ==
    /\ pc[w] = "get_bucket"
    /\ \E b \in get_bucket(SharedSelf) :
          IF ~Failed(b) THEN Shared(w, Memoize(b), "done")
          ELSE IF b.exc.type = "S3ResponseError" /\ should_create_bucket(b.exc, config)
          THEN Shared(w, Raise(b, NoExc), "create_bucket")
          ELSE Shared(w, b, "done")

\* self.s3_connection.create_bucket(...)
W_CreateBucket(w) ==
    /\ pc[w] = "create_bucket"
    /\ \E c \in connection_create_bucket(SharedSelf) :
          Shared(w, Raise(c, NoExc), IF Failed(c) THEN "done" ELSE "get_bucket_again")

\* self.cached_bucket = self.s3_connection.get_bucket(...) after the create
W_GetBucketAgain(w) ==
    /\ pc[w] = "get_bucket_again"
    /\ \E b \in connection_get_bucket(SharedSelf) :
          Shared(w, Memoize(b), "done")

WorkerNext ==
    \E w \in Workers :
        \/ W_Prerequisites(w)
        \/ W_TestBucket(w)
        \/ W_TestConnection(w)
        \/ W_Connect(w)
        \/ W_GetBucket(w)
        \/ W_CreateBucket(w)
        \/ W_GetBucketAgain(w)

SpecWorkers == Init /\ [][WorkerNext]_vars

----------------------------------------------------------------------------
(* Properties *)

Names(cs) == {cs[i].name : i \in 1..Len(cs)}
Indices(cs, name) == {i \in 1..Len(cs) : cs[i].name = name}
NoNetworkCall(cs) == Names(cs) \cap NetworkCalls = {}
PrerequisitesMet == config.s3_cache_bucket # <<>> /\ boto_installed
Ran(name) == call.name = name

\* the key and the local path the documentation promises
ExpectedKey(filename) ==
    IF config.s3_cache_prefix = <<>> THEN filename
    ELSE config.s3_cache_prefix \o <<"/">> \o filename
ExpectedPath(filename) == CacheDir \o <<"/">> \o filename

\* C1: whatever the client library raises during a get or a put, the caller
\* sees only CacheBackendDisabledError or CacheBackendError.
C1_OnlyBackendExceptions ==
    raised.type \in {"none", "CacheBackendDisabledError", "CacheBackendError"}

\* C2 as stated: with the bucket name unset or boto missing, get and put both
\* raise CacheBackendDisabledError and make no network call, whatever the
\* rest of the configuration is.
C2_AlwaysDisabled ==
    (~PrerequisitesMet /\ (Ran("get") \/ Ran("put")))
        => (raised = CacheBackendDisabledError /\ NoNetworkCall(calls))

\* C2 amended: with the bucket name unset or boto missing, get raises
\* CacheBackendDisabledError, and so does put unless the backend is read-only,
\* in which case put returns without raising; none of them makes a network
\* call.
C2_DisabledUnlessReadonlyPut ==
    (~PrerequisitesMet /\ (Ran("get") \/ Ran("put")))
        => /\ NoNetworkCall(calls)
           /\ IF Ran("put") /\ config.s3_cache_readonly
              THEN raised = NoExc
              ELSE raised = CacheBackendDisabledError

C2_Witness ==
    /\ Ran("put")
    /\ config.s3_cache_bucket # <<>>
    /\ ~boto_installed
    /\ ~config.s3_cache_readonly
    /\ raised = CacheBackendDisabledError

\* C3: a put on a read-only backend makes no network call, leaves the remote
\* store and the memoized handles as they were, and returns without raising.
C3_ReadonlyPutIsNoop ==
    [][(call'.name = "put" /\ config.s3_cache_readonly)
        => /\ calls' = <<>>
           /\ raised' = NoExc
           /\ UNCHANGED <<store, bucket_exists, cached_connection,
                          cached_bucket, opened, resolved, uploads>>]_vars

C3_Witness ==
    /\ Ran("put")
    /\ config.s3_cache_readonly
    /\ PrerequisitesMet
    /\ bucket_exists
    /\ call.content # <<>>
    /\ raised = NoExc

\* C4: a get ends in one of three ways: it returns (None exactly when the
\* derived key is absent from the bucket), it raises
\* CacheBackendDisabledError because a prerequisite is unmet, or it raises
\* CacheBackendError.
C4_GetOutcomes ==
    Ran("get") =>
        \/ /\ raised = NoExc
           /\ (retval = RetNone) <=> ~Has(store, ExpectedKey(call.filename))
        \/ raised = CacheBackendDisabledError /\ ~PrerequisitesMet
        \/ raised = CacheBackendError /\ PrerequisitesMet

\* C5: a get that returns after a successful put of the same filename
\* returns <cacheDir>/<filename>, and the file at that path holds the content
\* that was put.
C5_RoundTrip ==
    (Ran("get") /\ raised = NoExc /\ Has(last_put, call.filename))
        => /\ retval = RetPath(ExpectedPath(call.filename))
           /\ Has(files, ExpectedPath(call.filename))
           /\ Lookup(files, ExpectedPath(call.filename))
                = Lookup(last_put, call.filename)

C5_Witness ==
    /\ Ran("get")
    /\ raised = NoExc
    /\ Has(last_put, call.filename)
    /\ Lookup(last_put, call.filename) = <<>>
    /\ Len(call.filename) > 1
    /\ retval.tag = "path"

\* C6: at most one connection handle and one bucket handle are ever created;
\* once a handle is memoized, no later operation connects or asks for the
\* bucket again, and the handle stays the same.
C6_HandlesCreatedOnce ==
    [][/\ opened' <= 1
       /\ resolved' <= 1
       /\ cached_connection # NoHandle
            => /\ "S3Connection" \notin Names(calls')
               /\ cached_connection' = cached_connection
       /\ cached_bucket # NoHandle
            => /\ Names(calls') \cap {"S3Connection", "get_bucket", "create_bucket"} = {}
               /\ cached_bucket' = cached_bucket]_vars

C6_Witness ==
    /\ nops >= 3
    /\ opened = 1
    /\ resolved = 1
    /\ raised = NoExc
    /\ Ran("get")
    /\ Names(calls) = {"check_prerequisites", "get_key", "get_contents_to_filename"}

\* the first bucket lookup of the operation answered 404
FirstLookup(cs) == CHOOSE i \in Indices(cs, "get_bucket") :
                       \A j \in Indices(cs, "get_bucket") : i <= j
FirstLookupNotFound(cs) ==
    /\ Indices(cs, "get_bucket") # {}
    /\ cs[FirstLookup(cs)].exc = S3ResponseError(404)
LaterLookups(cs) == Indices(cs, "get_bucket") \ {FirstLookup(cs)}

\* C7 as stated: after a first lookup that answers 404, auto-create makes
\* exactly one create_bucket call followed by exactly one further lookup,
\* whose success memoizes the bucket; without auto-create there is no create
\* call and the caller gets CacheBackendError.
C7_CreateThenLookup ==
    FirstLookupNotFound(calls) =>
        IF config.s3_cache_create_bucket
        THEN /\ Indices(calls, "create_bucket") = {FirstLookup(calls) + 1}
             /\ Cardinality(LaterLookups(calls)) = 1
             /\ \A i \in LaterLookups(calls) :
                    /\ i > FirstLookup(calls) + 1
                    /\ calls[i].exc = NoExc => cached_bucket # NoHandle
        ELSE /\ Indices(calls, "create_bucket") = {}
             /\ raised = CacheBackendError

\* C7 amended: after a first lookup that answers 404, auto-create makes
\* exactly one create_bucket call; when that call returns it is followed by
\* exactly one further lookup, whose success memoizes the bucket, and when it
\* raises there is no further lookup.  Without auto-create there is no
\* create call and the caller gets CacheBackendError.
C7_CreateThenLookupIfCreated ==
    FirstLookupNotFound(calls) =>
        IF config.s3_cache_create_bucket
        THEN /\ Indices(calls, "create_bucket") = {FirstLookup(calls) + 1}
             /\ Cardinality(LaterLookups(calls))
                  = (IF calls[FirstLookup(calls) + 1].exc = NoExc THEN 1 ELSE 0)
             /\ \A i \in LaterLookups(calls) :
                    /\ i = FirstLookup(calls) + 2
                    /\ calls[i].exc = NoExc => cached_bucket # NoHandle
                    /\ calls[i].exc # NoExc => cached_bucket = NoHandle
        ELSE /\ Indices(calls, "create_bucket") = {}
             /\ LaterLookups(calls) = {}
             /\ raised = CacheBackendError
             /\ cached_bucket = NoHandle

C7_Witness ==
    /\ FirstLookupNotFound(calls)
    /\ config.s3_cache_create_bucket
    /\ Cardinality(LaterLookups(calls)) = 1
    /\ cached_bucket # NoHandle
    /\ raised = NoExc

\* C8: a get whose download failed leaves at <cacheDir>/<filename> either no
\* file or the file that was there before the get.
DownloadFailed(cs) ==
    /\ cs # <<>>
    /\ cs[Len(cs)].name = "get_contents_to_filename"
    /\ cs[Len(cs)].exc # NoExc
C8_NoHalfWrittenFile ==
    [][(call'.name = "get" /\ DownloadFailed(calls'))
        => LET path == ExpectedPath(call'.filename)
           IN  \/ ~Has(files', path)
               \/ /\ Has(files, path)
                  /\ Lookup(files', path) = Lookup(files, path)]_vars

\* C9: a successful put changes the bucket at the derived key only, where it
\* leaves exactly the content put; putting what the key already holds
\* changes nothing; and the bucket holds, for every filename, the content of
\* its last successful put.
C9_LastWriteWins ==
    [][/\ (call'.name = "put" /\ uploads' # uploads)
            => /\ store' = Write(store, ExpectedKey(call'.filename), call'.content)
               /\ <<ExpectedKey(call'.filename), call'.content>> \in store
                    => store' = store
       /\ \A e \in last_put' :
            /\ Has(store', ExpectedKey(e[1]))
            /\ Lookup(store', ExpectedKey(e[1])) = e[2]]_vars

C9_Witness ==
    /\ Ran("put")
    /\ raised = NoExc
    /\ uploads >= 2
    /\ Cardinality(store) = 1
    /\ Cardinality(last_put) = 1

\* C10: the key derived for a filename is the filename alone when the prefix
\* is empty and prefix, "/", filename otherwise; it never starts with a
\* separator.
KeyDerived == calls # <<>> /\ calls[1] = [name |-> "check_prerequisites", exc |-> NoExc]
C10_KeyIsPrefixSlashFilename ==
    KeyDerived
        => /\ raw_key = ExpectedKey(call.filename)
           /\ raw_key # <<>>
           /\ raw_key[1] # "/"

C10_Witness ==
    /\ KeyDerived
    /\ config.s3_cache_prefix # <<>>
    /\ Len(call.filename) > 1
    /\ raw_key = <<"v", "/", "v", "/", "a">>

\* C11: the backend starts enabled; an operation that raises disables it,
\* one that returns leaves it enabled; once disabled it stays disabled and no
\* get or put reaches it any more.
C11_DisabledForGood ==
    [][/\ ~enabled => (~enabled' /\ nops' = nops /\ calls' = calls /\ call' = call)
       /\ nops' # nops => (enabled /\ (enabled' <=> raised' = NoExc))]_vars

C11_Witness ==
    /\ ~enabled
    /\ raised = CacheBackendError
    /\ nops = 1
    /\ requests = 3

\* C12: however the first operations of several workers interleave, at most
\* one connection and at most one bucket handle are created.
C12_SingleInitialisation == opened <= 1 /\ resolved <= 1

\* C13: an operation that ends in a client or server error of get_bucket or
\* create_bucket raises CacheBackendError and leaves no bucket handle; the
\* handle is set only by an operation in which a lookup returned; and while
\* there is no handle, every operation that gets as far as a connection
\* looks the bucket up again.
ClientOrServerError(e) ==
    e.type \in {"BotoClientError", "BotoServerError", "S3ResponseError"}
EndsInBucketError(cs) ==
    /\ cs # <<>>
    /\ cs[Len(cs)].name \in {"get_bucket", "create_bucket"}
    /\ ClientOrServerError(cs[Len(cs)].exc)
ReachesConnection(cs) ==
    /\ cs # <<>>
    /\ cs[1] = [name |-> "check_prerequisites", exc |-> NoExc]
    /\ \A i \in Indices(cs, "S3Connection") : cs[i].exc = NoExc
C13_FailedLookupNotMemoized ==
    [][/\ EndsInBucketError(calls')
            => (raised' = CacheBackendError /\ cached_bucket' = NoHandle)
       /\ cached_bucket' # cached_bucket
            => \E i \in Indices(calls', "get_bucket") : calls'[i].exc = NoExc
       /\ (cached_bucket = NoHandle /\ nops' # nops /\ ReachesConnection(calls'))
            => "get_bucket" \in Names(calls')]_vars

C13_Witness ==
    /\ nops >= 2
    /\ cached_bucket # NoHandle
    /\ "S3Connection" \notin Names(calls)
    /\ \E i \in Indices(calls, "get_bucket") : calls[i].exc = NoExc

\* C14: every get, and every put on a backend that is not read-only, starts
\* with check_prerequisites, runs it once, and makes no further step when it
\* raises: no network call comes before it has returned.
C14_PrerequisitesFirst ==
    (Ran("get") \/ (Ran("put") /\ ~config.s3_cache_readonly))
        => /\ calls # <<>>
           /\ Indices(calls, "check_prerequisites") = {1}
           /\ calls[1].exc # NoExc => Len(calls) = 1
           /\ \A i \in 1..Len(calls) :
                  calls[i].name \in NetworkCalls => (i > 1 /\ calls[1].exc = NoExc)

C14_Witness ==
    /\ nops >= 2
    /\ uploads >= 1
    /\ Ran("get")
    /\ raised = NoExc
    /\ calls[1] = [name |-> "check_prerequisites", exc |-> NoExc]
    /\ Names(calls) = {"check_prerequisites", "get_key", "get_contents_to_filename"}

\* C15: under the configured prefix two distinct filenames never derive the
\* same key (there are as many keys as filenames), and the bucket holds for every filename the content of its own
\* last put, whatever was put under other filenames since.
NameChars == {"a", "/"}
NameSpace == UNION {[1..n -> NameChars] : n \in 0..MaxNameLen}
C15_KeysNeverCollide ==
    /\ Cardinality({get_cache_key(config, f) : f \in NameSpace \cup Filenames})
          = Cardinality(NameSpace \cup Filenames)
    /\ \A e \in last_put : <<get_cache_key(config, e[1]), e[2]>> \in store

C15_Witness ==
    /\ Cardinality(last_put) = 2
    /\ \E e1, e2 \in last_put : e1[1] # e2[1] /\ e1[2] # e2[2]
    /\ config.s3_cache_prefix # <<>>
    /\ Ran("put")
    /\ raised = NoExc

\* C16: a connection is opened with secure transport exactly when the scheme
\* is https, on the port the URL gives or else 443 when secure and 80 when
\* not, to the URL's host, with subdomain addressing exactly when that host
\* is s3.amazonaws.com.
Endpoint == CHOOSE e \in Endpoints : e.url = config.s3_cache_url
C16_ConnectionParameters ==
    conn_args # NoArgs
        => /\ conn_args.is_secure <=> Endpoint.scheme = "https"
           /\ conn_args.port = (IF Endpoint.port # 0 THEN Endpoint.port
                                 ELSE IF conn_args.is_secure THEN 443 ELSE 80)
           /\ conn_args.host = Endpoint.host
           /\ conn_args.calling_format = "SubdomainCallingFormat"
                <=> Endpoint.host = Canonical
           /\ conn_args.calling_format = "OrdinaryCallingFormat"
                <=> Endpoint.host # Canonical

C16_Witness ==
    /\ opened = 1
    /\ cached_connection # NoHandle
    /\ conn_args = [host |-> Canonical, port |-> 81, is_secure |-> FALSE,
                    calling_format |-> "SubdomainCallingFormat"]

\* C17: every create_bucket call comes directly after a get_bucket call that
\* raised S3ResponseError with status 404, on a backend with auto-create
\* enabled; after a lookup that returned or failed otherwise there is none.
C17_CreateOnlyAfterNotFound ==
    \A i \in Indices(calls, "create_bucket") :
        /\ i > 1
        /\ calls[i - 1] = [name |-> "get_bucket", exc |-> S3ResponseError(404)]
        /\ config.s3_cache_create_bucket

\* a lookup was refused (403) on a backend with auto-create enabled, and the
\* operation ended there
C17_Witness ==
    /\ config.s3_cache_create_bucket
    /\ ~bucket_exists
    /\ calls # <<>>
    /\ calls[Len(calls)] = [name |-> "get_bucket", exc |-> S3ResponseError(403)]
    /\ raised = CacheBackendError

\* C18: a get that returns None or raises CacheBackendDisabledError leaves
\* the files and directories of the local cache as they were; a get changes
\* them only after get_key found the object.
C18_MissLeavesCacheDirUntouched ==
    [][(call'.name = "get" /\ nops' # nops)
        => /\ (retval' = RetNone \/ raised' = CacheBackendDisabledError)
                => UNCHANGED <<files, dirs>>
           /\ (files' # files \/ dirs' # dirs)
                => /\ \E i \in Indices(calls', "get_key") : calls'[i].exc = NoExc
                   /\ Has(store, ExpectedKey(call'.filename))]_vars

C18_Witness ==
    /\ Ran("get")
    /\ raised = NoExc
    /\ retval = RetNone
    /\ store # {}
    /\ files = {}
    /\ dirs = {}

\* C19: a connection that S3Connection returned is memoized whatever happens
\* to the bucket lookup after it; a memoized connection is never replaced, a
\* later lookup uses it without connecting again, and no instance opens
\* more than one connection.
C19_ConnectionSurvivesFailedLookup ==
    [][/\ opened' <= 1
       /\ (\E i \in Indices(calls', "S3Connection") : calls'[i].exc = NoExc)
            => (cached_connection' # NoHandle /\ cached_connection' = opened')
       /\ cached_connection # NoHandle
            => /\ cached_connection' = cached_connection
               /\ opened' = opened
               /\ "S3Connection" \notin Names(calls')]_vars

C19_Witness ==
    /\ nops >= 2
    /\ opened = 1
    /\ cached_connection # NoHandle
    /\ cached_bucket = NoHandle
    /\ raised = CacheBackendError
    /\ Names(calls) = {"check_prerequisites", "get_bucket"}

====
